---- MODULE Spec2Model ----
(***************************************************************************)
(* State-machine model of MemPoolsAllocator/MemPoolsAlloc.h: a Pool with   *)
(* its block bitmap and resume hint, and the MemPoolList chain of pools.   *)
(* Pointers are integer addresses; nullptr is address 0.                   *)
(***************************************************************************)
EXTENDS Integers, Sequences, FiniteSets, Bags, TLC

\* ---------------------------------------------------------------- constants

\* const size_t kByte = 8 : blocks tracked by one byte of used_blocks.
kByte == 8

\* nullptr, as an address.
NULL == 0

\* Width of size_t in the model. The build's size_t has 64 bits; every
\* quantity of the model except the wrapped value of bytes_ - 1 at bytes_ = 0
\* stays below 2^10, so the width only has to be large enough to keep the
\* wrapped value far above every block count.
SizeBits == 16

SizeMod == 2 ^ SizeBits

\* First address std::malloc hands out for an arena, and the distance between
\* the end of one arena and the start of the next.
HeapBase == 8

ArenaGap == 1

\* How many live zero-block allocations may share one (pointer, bytes) pair.
MaxDup == 1

\* The configurations (the lists given to set_config / the Allocator_
\* constructor) and, for each, the byte counts callers request.
Scenarios ==
    { [list_ |-> << <<16, 8>> >>,                     sizes |-> {0, 17, 33}],
      [list_ |-> << <<1, 3>>, <<2, 2>> >>,            sizes |-> {1, 2}],
      [list_ |-> << <<2, 1>>, <<1, 2>>, <<4, 1>> >>,  sizes |-> {0, 1, 4}],
      [list_ |-> << <<2, 10>> >>,                     sizes |-> {3, 7}],
      [list_ |-> << <<4, 6>> >>,                      sizes |-> {4, 8}],
      [list_ |-> << <<1, 1>>, <<2, 1>>, <<3, 1>>, <<4, 1>> >>, sizes |-> {1, 3}] }

\* The lists callers hand to set_config while an allocator exists.
Configs == { << <<2, 10>> >> }

\* ---------------------------------------------------------------- state

VARIABLES
    config,   \* the global std::vector config (line 11)
    built_from, \* the list the constructor of the chain was given
    pools,    \* the Pool objects on the heap, by identity (creation order)
    head,     \* MemPoolList::head
    tail,     \* MemPoolList::tail
    live,     \* bag of [pointer, bytes]: allocations handed out, not yet returned
    last      \* the last call: its arguments, its result, and the served pool before it

vars == <<config, built_from, pools, head, tail, live, last>>

\* ---------------------------------------------------------------- bit helpers

\* (byte >> order) % 2 on the bit pattern of one char of used_blocks.
Bit(byte, order) == (byte \div (2 ^ order)) % 2

RECURSIVE PackBits(_, _)
\* The byte whose bit at each order o in 0..top is f[o].
PackBits(f, top) ==
    IF top < 0 THEN 0 ELSE f[top] * (2 ^ top) + PackBits(f, top - 1)

\* used_blocks[c] | mask, for the masks 1 << order of the given orders.
OrMask(byte, orders) ==
    PackBits([o \in 0..(kByte - 1) |-> IF o \in orders THEN 1 ELSE Bit(byte, o)], kByte - 1)

\* used_blocks[c] & (mask_2 ^ 0xFF), for the masks 1 << order of the given orders.
AndNotMask(byte, orders) ==
    PackBits([o \in 0..(kByte - 1) |-> IF o \in orders THEN 0 ELSE Bit(byte, o)], kByte - 1)

\* The bit orders (kByte - 1 - i % kByte) of the blocks idx_ .. idx_+n-1 that
\* live in byte number c (0-based) of used_blocks.
OrdersIn(c, idx_, n) ==
    { kByte - 1 - (i % kByte) : i \in { j \in idx_..(idx_ + n - 1) : j \div kByte = c } }

\* (used_blocks[c] >> order) % 2 as lines 63 and 88 compute it: used_blocks is
\* char, which is signed in this build, so a byte with bit 7 set is negative,
\* the shift keeps the sign and % gives -1, not 1, for a set bit.
ShiftedBit(byte, order) ==
    LET value   == IF byte >= 2 ^ (kByte - 1) THEN byte - 2 ^ kByte ELSE byte
        shifted == value \div (2 ^ order)
    IN  IF shifted >= 0 THEN shifted % 2 ELSE 0 - ((0 - shifted) % 2)

\* The test of lines 62-63: is block idx marked in use (the value converted
\* to bool, so -1 counts as set).
in_use(p, idx) ==
    ShiftedBit(p.used_blocks[(idx \div kByte) + 1], kByte - 1 - (idx % kByte)) # 0

\* ---------------------------------------------------------------- Pool

\* 1 + ((block_counter - 1) / kByte) in size_t arithmetic (line 148): for
\* block_counter 0 the subtraction wraps.
used_blocks_size(block_counter_) ==
    (1 + (((block_counter_ - 1) % SizeMod) \div kByte)) % SizeMod

\* The assert of line 150: malloc returned the bitmap. A request of the
\* wrapped size, an eighth of the address range or more, is never served.
Pool_ctor_assert(block_counter_) ==
    used_blocks_size(block_counter_) < SizeMod \div kByte

\* Pool::Pool : all blocks free, hint 0, bitmap of used_blocks_size zero
\* bytes, arena at address addr. The object exists when Pool_ctor_assert holds.
Pool_ctor(block_size_, block_counter_, addr) ==
    [ block_size      |-> block_size_,
      block_counter   |-> block_counter_,
      blocks_free_num |-> block_counter_,
      free_block      |-> 0,
      mem_pointer     |-> addr,
      used_blocks     |-> [c \in 1..used_blocks_size(block_counter_) |-> 0],
      next_pool       |-> NULL,
      prev_pool       |-> NULL ]

\* find without the upper bound of line 48: every address from mem_pointer on.
find_lower_bound_only(p, pointer_) ==
    p.mem_pointer <= pointer_

\* Pool::find
find(p, pointer_) ==
    /\ p.mem_pointer <= pointer_
    /\ pointer_ < p.mem_pointer + p.block_size * p.block_counter

\* 1 + ((bytes_ - 1) / block_size) in size_t arithmetic (lines 112 and 130).
number_of_blocks(bytes_, block_size) ==
    (1 + (((bytes_ - 1) % SizeMod) \div block_size)) % SizeMod

RECURSIVE ScanWindow(_, _, _, _, _, _)
\* The while loop of lines 61-70, entered with the given right, i and ok.
ScanWindow(p, n, left, right, i, ok) ==
    IF right - left + 1 <= n /\ ok
    THEN IF in_use(p, right)
         THEN ScanWindow(p, n, left, right + 1, right, FALSE)
         ELSE ScanWindow(p, n, left, right + 1, i, ok)
    ELSE [right |-> right, i |-> i, ok |-> ok]

RECURSIVE SearchFrom_to_end_of_bitmap(_, _, _)
\* The for loop of lines 56-79 bounded by the bits the bitmap has, kByte for
\* each byte of used_blocks, instead of by block_counter.
SearchFrom_to_end_of_bitmap(p, n, i) ==
    IF i + n <= kByte * Len(p.used_blocks)
    THEN LET w     == ScanWindow(p, n, i, i, i, TRUE)
             right == w.right - 1
         IN  IF right - i + 1 = n /\ w.ok
             THEN [ idx        |-> i,
                    free_block |-> IF w.i = p.free_block THEN i + n ELSE p.free_block ]
             ELSE SearchFrom_to_end_of_bitmap(p, n, w.i + 1)
    ELSE [idx |-> p.block_counter, free_block |-> p.free_block]

RECURSIVE SearchFrom(_, _, _)
\* The for loop of lines 56-79 from index i on. The result is the returned
\* index and the value free_block has on return.
SearchFrom(p, n, i) ==
    IF i + n <= p.block_counter
    THEN LET w     == ScanWindow(p, n, i, i, i, TRUE)
             right == w.right - 1
         IN  IF right - i + 1 = n /\ w.ok
             THEN [ idx        |-> i,
                    free_block |-> IF w.i = p.free_block THEN i + n ELSE p.free_block ]
             ELSE SearchFrom(p, n, w.i + 1)
    ELSE [idx |-> p.block_counter, free_block |-> p.free_block]

RECURSIVE SearchReads(_, _, _)
\* The block indices whose bit line 63 reads while the for loop of lines
\* 56-79 runs from index i on: each window reads left .. right, right being
\* the index the while loop stopped at.
SearchReads(p, n, i) ==
    IF i + n <= p.block_counter
    THEN LET w     == ScanWindow(p, n, i, i, i, TRUE)
             right == w.right - 1
         IN  (i..right) \cup (IF right - i + 1 = n /\ w.ok
                              THEN {}
                              ELSE SearchReads(p, n, w.i + 1))
    ELSE {}

\* get_blocks with the test i == free_block of line 73 left out: the hint
\* moves past every run handed out.
get_blocks_always_advances(p, n) ==
    LET g == SearchFrom(p, n, p.free_block)
    IN  [ idx        |-> g.idx,
          free_block |-> IF g.idx < p.block_counter THEN g.idx + n ELSE p.free_block ]

\* get_blocks leaving the hint where a failed search ended: free_block is
\* block_counter when no run is found.
get_blocks_failure_moves_hint(p, n) ==
    LET g == SearchFrom(p, n, p.free_block)
    IN  [ idx        |-> g.idx,
          free_block |-> IF g.idx < p.block_counter THEN g.free_block ELSE p.block_counter ]

\* Pool::get_blocks
get_blocks(p, n) == SearchFrom(p, n, p.free_block)

\* Pool::use_blocks : the assert of line 88 holds in every round of the loop.
\* Round i sees its byte with the blocks idx_ .. i-1 already marked, and the
\* assert compares the signed value with 1: it fails for a set bit only
\* while bit 7 of the byte is clear.
use_blocks_assert(p, idx_, n) ==
    \A i \in idx_..(idx_ + n - 1) :
        LET c    == i \div kByte
            byte == OrMask(p.used_blocks[c + 1], OrdersIn(c, idx_, i - idx_))
        IN  ShiftedBit(byte, kByte - 1 - (i % kByte)) # 1

\* use_blocks marking the first block of the run only.
use_blocks_marks_first(p, idx_, n) ==
    [p EXCEPT
       !.used_blocks     = [c \in DOMAIN @ |->
                               OrMask(@[c], OrdersIn(c - 1, idx_, IF n > 0 THEN 1 ELSE 0))],
       !.blocks_free_num = (@ - n) % SizeMod]

\* Pool::use_blocks
use_blocks(p, idx_, n) ==
    [p EXCEPT
       !.used_blocks     = [c \in DOMAIN @ |-> OrMask(@[c], OrdersIn(c - 1, idx_, n))],
       !.blocks_free_num = (@ - n) % SizeMod]

\* free_blocks counting the call, not the blocks: blocks_free_num += 1.
free_blocks_counts_call(p, idx_, n) ==
    [p EXCEPT
       !.used_blocks     = [c \in DOMAIN @ |-> AndNotMask(@[c], OrdersIn(c - 1, idx_, n))],
       !.free_block      = IF idx_ < @ THEN idx_ ELSE @,
       !.blocks_free_num = (@ + 1) % SizeMod]

\* free_blocks without lines 105-107: the hint is never lowered.
free_blocks_keeps_hint(p, idx_, n) ==
    [p EXCEPT
       !.used_blocks     = [c \in DOMAIN @ |-> AndNotMask(@[c], OrdersIn(c - 1, idx_, n))],
       !.blocks_free_num = (@ + n) % SizeMod]

\* free_blocks whose loop stops one block early (i < idx_ + n - 1).
free_blocks_stops_early(p, idx_, n) ==
    [p EXCEPT
       !.used_blocks     = [c \in DOMAIN @ |-> AndNotMask(@[c], OrdersIn(c - 1, idx_, n - 1))],
       !.free_block      = IF idx_ < @ THEN idx_ ELSE @,
       !.blocks_free_num = (@ + n) % SizeMod]

\* free_blocks without the test of line 105: the hint always moves to idx_.
free_blocks_moves_hint(p, idx_, n) ==
    [p EXCEPT
       !.used_blocks     = [c \in DOMAIN @ |-> AndNotMask(@[c], OrdersIn(c - 1, idx_, n))],
       !.free_block      = idx_,
       !.blocks_free_num = (@ + n) % SizeMod]

\* Pool::free_blocks
free_blocks(p, idx_, n) ==
    [p EXCEPT
       !.used_blocks     = [c \in DOMAIN @ |-> AndNotMask(@[c], OrdersIn(c - 1, idx_, n))],
       !.free_block      = IF idx_ < @ THEN idx_ ELSE @,
       !.blocks_free_num = (@ + n) % SizeMod]

\* Pool::allocate : the pool afterwards and the returned pointer.
Pool_allocate(p, bytes_) ==
    LET n  == number_of_blocks(bytes_, p.block_size)
        g  == get_blocks(p, n)
        p1 == [p EXCEPT !.free_block = g.free_block]
    IN  IF g.idx >= p.block_counter
        THEN [pool |-> p1, ret |-> NULL, outcome |-> "null"]
        ELSE IF ~use_blocks_assert(p1, g.idx, n)
        THEN [pool |-> p1, ret |-> NULL, outcome |-> "abort"]
        ELSE [ pool    |-> use_blocks(p1, g.idx, n),
               ret     |-> p.mem_pointer + g.idx * p.block_size,
               outcome |-> "ok" ]

\* Pool::deallocate without the test of lines 126-128.
Pool_deallocate_unchecked(p, pointer_, bytes_) ==
    LET blocks_to_deallocate == number_of_blocks(bytes_, p.block_size)
        d                    == (pointer_ - p.mem_pointer) % SizeMod
        block_number         == d \div p.block_size
    IN  [ pool    |-> free_blocks(p, block_number, blocks_to_deallocate),
          outcome |-> "ok" ]

\* Pool::deallocate : the pool afterwards and how the call ended.
Pool_deallocate(p, pointer_, bytes_) ==
    IF pointer_ = NULL
    THEN [pool |-> p, outcome |-> "bad_alloc"]
    ELSE LET blocks_to_deallocate == number_of_blocks(bytes_, p.block_size)
             d                    == (pointer_ - p.mem_pointer) % SizeMod
             block_number         == d \div p.block_size
         IN  [ pool    |-> free_blocks(p, block_number, blocks_to_deallocate),
               outcome |-> "ok" ]

\* ---------------------------------------------------------------- MemPoolList

\* new Pool(cfg.first, cfg.second) on a heap [pools, brk]: the object gets the
\* next identity and its arena the next free address.
NewPool(heap, cfg) ==
    [ pools |-> Append(heap.pools, Pool_ctor(cfg[1], cfg[2], heap.brk)),
      brk   |-> heap.brk + cfg[1] * cfg[2] + ArenaGap ]

RECURSIVE CtorLoop_keeps_prev(_, _, _, _, _)
\* The loop of lines 175-184 without line 180: prev stays the head, so every
\* middle pool is linked behind the head.
CtorLoop_keeps_prev(heap, list_, counter, prev, last_) ==
    IF counter = Len(list_)
    THEN [heap |-> heap, last_ |-> last_]
    ELSE IF counter # 0 /\ counter # Len(list_) - 1
    THEN LET h1      == NewPool(heap, list_[counter + 1])
             current == Len(h1.pools)
             linked  == [h1.pools EXCEPT ![prev].next_pool    = current,
                                         ![current].prev_pool = prev]
         IN  CtorLoop_keeps_prev([h1 EXCEPT !.pools = linked], list_, counter + 1, prev, current)
    ELSE CtorLoop_keeps_prev(heap, list_, counter + 1, prev, last_)

RECURSIVE CtorLoop(_, _, _, _, _)
\* The for loop of lines 175-184, from the given counter, prev and last on.
CtorLoop(heap, list_, counter, prev, last_) ==
    IF counter = Len(list_)
    THEN [heap |-> heap, last_ |-> last_]
    ELSE IF counter # 0 /\ counter # Len(list_) - 1
    THEN LET h1      == NewPool(heap, list_[counter + 1])
             current == Len(h1.pools)
             linked  == [h1.pools EXCEPT ![prev].next_pool    = current,
                                         ![current].prev_pool = prev]
         IN  CtorLoop([h1 EXCEPT !.pools = linked], list_, counter + 1, current, current)
    ELSE CtorLoop(heap, list_, counter + 1, prev, last_)

\* MemPoolList::MemPoolList : the pools, head and tail after construction, and
\* whether every Pool constructor passed its assert.
MemPoolList_ctor(list_) ==
    LET h0    == NewPool([pools |-> << >>, brk |-> HeapBase], list_[1])
        head_ == 1
        h1    == IF Len(list_) > 1 THEN NewPool(h0, list_[Len(list_)]) ELSE h0
        tail_ == IF Len(list_) > 1 THEN Len(h1.pools) ELSE head_
        r     == CtorLoop(h1, list_, 0, head_, head_)
        ps    == r.heap.pools
    IN  [ pools |-> IF Len(list_) > 1
                    THEN [ps EXCEPT ![r.last_].next_pool = tail_,
                                    ![tail_].prev_pool   = r.last_]
                    ELSE ps,
          outcome |-> IF \A i \in DOMAIN list_ : Pool_ctor_assert(list_[i][2])
                      THEN "ok" ELSE "abort",
          head  |-> head_,
          tail  |-> tail_ ]

\* The pre-filter of line 202.
fits(p, bytes) ==
    /\ (p.blocks_free_num * p.block_size) % SizeMod >= bytes
    /\ p.blocks_free_num # 0

RECURSIVE AllocateWalk(_, _, _)
\* The while loop of MemPoolList::allocate from pool on.
AllocateWalk(ps, pool, bytes) ==
    IF pool = NULL
    THEN [pools |-> ps, ret |-> NULL, outcome |-> "bad_alloc", pid |-> NULL]
    ELSE IF fits(ps[pool], bytes)
    THEN LET a == Pool_allocate(ps[pool], bytes)
         IN  IF a.ret # NULL
             THEN [ pools   |-> [ps EXCEPT ![pool] = a.pool],
                    ret     |-> a.ret,
                    outcome |-> "ok",
                    pid     |-> pool ]
             ELSE IF a.outcome = "abort"
             THEN [pools |-> ps, ret |-> NULL, outcome |-> "abort", pid |-> pool]
             ELSE AllocateWalk([ps EXCEPT ![pool] = a.pool], ps[pool].next_pool, bytes)
    ELSE AllocateWalk(ps, ps[pool].next_pool, bytes)

\* MemPoolList::allocate
MemPoolList_allocate(ps, head_, bytes) == AllocateWalk(ps, head_, bytes)

RECURSIVE DeallocateWalk(_, _, _, _)
\* The while loop of MemPoolList::deallocate from pool on.
DeallocateWalk(ps, pool, pointer, bytes) ==
    IF pool = NULL
    THEN [pools |-> ps, outcome |-> "noop", pid |-> NULL]
    ELSE IF find(ps[pool], pointer)
    THEN LET d == Pool_deallocate(ps[pool], pointer, bytes)
         IN  [pools |-> [ps EXCEPT ![pool] = d.pool], outcome |-> d.outcome, pid |-> pool]
    ELSE DeallocateWalk(ps, ps[pool].next_pool, pointer, bytes)

\* MemPoolList::deallocate
MemPoolList_deallocate(ps, head_, pointer, bytes) ==
    DeallocateWalk(ps, head_, pointer, bytes)

\* ---------------------------------------------------------------- callers

\* The byte counts the callers of the chain request; none when there is no
\* chain.
Sizes ==
    IF head = NULL THEN {}
    ELSE (CHOOSE s \in Scenarios : s.list_ = built_from).sizes

\* A placeholder for "no pool" in the record of the last call.
NoPool ==
    [ block_size |-> 0, block_counter |-> 0, blocks_free_num |-> 0, free_block |-> 0,
      mem_pointer |-> NULL, used_blocks |-> << >>, next_pool |-> NULL, prev_pool |-> NULL ]

\* The allocation a successful allocate hands to its caller.
Loan(pointer, bytes) == [pointer |-> pointer, bytes |-> bytes]

\* The record of a call: what was called on which pool with which arguments,
\* what it returned and how it ended. before and roundtrip are filled in by
\* the allocate and deallocate actions; misuse names a release that does not
\* match a live allocation.
Called(op, pid, bytes, ptr, ret, outcome) ==
    [ op |-> op, pid |-> pid, bytes |-> bytes, ptr |-> ptr, ret |-> ret,
      outcome |-> outcome, before |-> NoPool, roundtrip |-> FALSE, misuse |-> "none" ]

\* A zero-block loan may be handed out again while it is live; the model
\* keeps at most MaxDup copies of one.
MayLend(ps, rec) ==
    (\E k \in DOMAIN ps :
        find(ps[k], rec.pointer) /\ number_of_blocks(rec.bytes, ps[k].block_size) = 0)
    => CopiesIn(rec, live) < MaxDup

\* Does this call return the allocation the immediately preceding call made.
ReturnsLast(rec) ==
    /\ last.op \in {"Pool.allocate", "MemPoolList.allocate"}
    /\ last.outcome = "ok"
    /\ last.ret = rec.pointer
    /\ last.bytes = rec.bytes

\* Addresses no arena contains: nullptr, and the addresses just before and
\* just past each arena.
UnownedPointers ==
    { a \in {NULL} \cup { pools[k].mem_pointer - 1 : k \in DOMAIN pools }
                   \cup { pools[k].mem_pointer + pools[k].block_size * pools[k].block_counter
                            : k \in DOMAIN pools } :
        \A k \in DOMAIN pools : ~find(pools[k], a) }

\* An allocator has been constructed: by Allocator_(list_) of line 236, which
\* leaves the global config empty, or by set_config(list_) and Allocator_() of
\* line 239, which reads the chain's list from config.
Constructed ==
    \E s \in Scenarios, by_default \in BOOLEAN :
        LET c == MemPoolList_ctor(s.list_)
        IN  /\ c.outcome = "ok"
            /\ config = IF by_default THEN s.list_ ELSE << >>
            /\ built_from = s.list_
            /\ pools = c.pools
            /\ head = c.head
            /\ tail = c.tail
            /\ live = EmptyBag
            /\ last = Called("MemPoolList", NULL, 0, NULL, NULL, "ok")

\* Allocator_() without a set_config before it: line 166 reads
\* list_.begin()->first of the empty config, through the null data pointer
\* of a vector that never held anything, and the process dies of it.
ConstructedFromEmptyConfig ==
    /\ config = << >>
    /\ built_from = << >>
    /\ pools = << >>
    /\ head = NULL
    /\ tail = NULL
    /\ live = EmptyBag
    /\ last = Called("MemPoolList", NULL, 0, NULL, NULL, "segv")

Init == Constructed \/ ConstructedFromEmptyConfig

\* A caller calls Pool::allocate(bytes) on pool k.
PoolAllocate(k, bytes) ==
    LET a == Pool_allocate(pools[k], bytes)
    IN  /\ a.outcome = "ok" => MayLend(pools, Loan(a.ret, bytes))
        /\ pools' = [pools EXCEPT ![k] = a.pool]
        /\ live' = IF a.outcome = "ok"
                   THEN live (+) SetToBag({Loan(a.ret, bytes)})
                   ELSE live
        /\ last' = [Called("Pool.allocate", k, bytes, NULL, a.ret, a.outcome)
                       EXCEPT !.before = IF a.outcome = "ok" THEN pools[k] ELSE NoPool]
        /\ UNCHANGED <<config, built_from, head, tail>>

\* A caller returns the live allocation r to pool k, which owns it, with
\* Pool::deallocate(r.pointer, r.bytes).
PoolDeallocate(k, r) ==
    LET d == Pool_deallocate(pools[k], r.pointer, r.bytes)
    IN  /\ BagIn(r, live)
        /\ find(pools[k], r.pointer)
        /\ pools' = [pools EXCEPT ![k] = d.pool]
        /\ live' = live (-) SetToBag({r})
        /\ last' = [Called("Pool.deallocate", k, r.bytes, r.pointer, NULL, d.outcome)
                       EXCEPT !.before    = IF ReturnsLast(r) THEN last.before ELSE NoPool,
                              !.roundtrip = ReturnsLast(r)]
        /\ UNCHANGED <<config, built_from, head, tail>>

\* A caller calls Pool::deallocate(nullptr, bytes) on pool k.
PoolDeallocateNull(k, bytes) ==
    LET d == Pool_deallocate(pools[k], NULL, bytes)
    IN  /\ pools' = [pools EXCEPT ![k] = d.pool]
        /\ last' = Called("Pool.deallocate", k, bytes, NULL, NULL, d.outcome)
        /\ UNCHANGED <<config, built_from, head, tail, live>>

\* A caller calls MemPoolList::allocate(bytes).
ChainAllocate(bytes) ==
    LET a == MemPoolList_allocate(pools, head, bytes)
    IN  /\ a.outcome = "ok" => MayLend(pools, Loan(a.ret, bytes))
        /\ pools' = a.pools
        /\ live' = IF a.outcome = "ok"
                   THEN live (+) SetToBag({Loan(a.ret, bytes)})
                   ELSE live
        /\ last' = [Called("MemPoolList.allocate", a.pid, bytes, NULL, a.ret, a.outcome)
                       EXCEPT !.before = IF a.outcome = "ok" THEN pools[a.pid] ELSE NoPool]
        /\ UNCHANGED <<config, built_from, head, tail>>

\* A caller returns the live allocation r with MemPoolList::deallocate.
ChainDeallocate(r) ==
    LET d == MemPoolList_deallocate(pools, head, r.pointer, r.bytes)
    IN  /\ BagIn(r, live)
        /\ pools' = d.pools
        /\ live' = live (-) SetToBag({r})
        /\ last' = [Called("MemPoolList.deallocate", d.pid, r.bytes, r.pointer, NULL, d.outcome)
                       EXCEPT !.before    = IF ReturnsLast(r) THEN last.before ELSE NoPool,
                              !.roundtrip = ReturnsLast(r)]
        /\ UNCHANGED <<config, built_from, head, tail>>

\* A caller calls MemPoolList::deallocate with an address no arena contains.
ChainDeallocateUnowned(pointer, bytes) ==
    LET d == MemPoolList_deallocate(pools, head, pointer, bytes)
    IN  /\ pools' = d.pools
        /\ last' = Called("MemPoolList.deallocate", d.pid, bytes, pointer, NULL, d.outcome)
        /\ UNCHANGED <<config, built_from, head, tail, live>>

\* A caller calls set_config(cfg): the global config is replaced; a chain
\* that exists keeps the pools it was built with.
SetConfig(cfg) ==
    /\ last.outcome # "segv"
    /\ config' = cfg
    /\ last' = Called("set_config", NULL, 0, NULL, NULL, "ok")
    /\ UNCHANGED <<built_from, pools, head, tail, live>>

\* The allocator goes out of scope: ~MemPoolList walks next_pool from head,
\* deletes every pool (~Pool releases arena and bitmap, which operator delete
\* hands to free in this build) and leaves head null; tail is not assigned.
\* The allocations that were live end with their arenas.
Destroy ==
    /\ head # NULL
    /\ pools' = << >>
    /\ head' = NULL
    /\ live' = EmptyBag
    /\ last' = Called("~MemPoolList", NULL, 0, NULL, NULL, "ok")
    /\ UNCHANGED <<config, built_from, tail>>

Next ==
    \/ \E k \in DOMAIN pools, bytes \in Sizes : PoolAllocate(k, bytes)
    \/ \E k \in DOMAIN pools, r \in BagToSet(live) : PoolDeallocate(k, r)
    \/ \E k \in DOMAIN pools, bytes \in Sizes : PoolDeallocateNull(k, bytes)
    \/ \E bytes \in Sizes : ChainAllocate(bytes)
    \/ \E r \in BagToSet(live) : ChainDeallocate(r)
    \/ \E pointer \in UnownedPointers, bytes \in Sizes : ChainDeallocateUnowned(pointer, bytes)
    \/ \E cfg \in Configs : SetConfig(cfg)
    \/ Destroy

Spec == Init /\ [][Next]_vars

\* ---------------------------------------------------------------- misuse

\* The blocks of pool k that the live allocations hold.
LentBlocks(k) ==
    UNION { LET first == (r.pointer - pools[k].mem_pointer) \div pools[k].block_size
            IN  first..(first + number_of_blocks(r.bytes, pools[k].block_size) - 1)
            : r \in { x \in BagToSet(live) : find(pools[k], x.pointer) } }

\* Nothing has gone wrong so far: in every pool the marked blocks are the
\* blocks lent out and blocks_free_num counts the others.
Undamaged ==
    \A k \in DOMAIN pools :
        /\ { i \in 0..(pools[k].block_counter - 1) : in_use(pools[k], i) } = LentBlocks(k)
        /\ pools[k].blocks_free_num = pools[k].block_counter - Cardinality(LentBlocks(k))

\* A caller repeats, on pool k, the release it has just made: the second of
\* two deallocate calls for the same allocation of at least one block.
DoubleFree(k) ==
    LET d == Pool_deallocate(pools[k], last.ptr, last.bytes)
    IN  /\ last.op \in {"Pool.deallocate", "MemPoolList.deallocate"}
        /\ last.outcome = "ok"
        /\ find(pools[k], last.ptr)
        /\ ~BagIn(Loan(last.ptr, last.bytes), live)
        /\ number_of_blocks(last.bytes, pools[k].block_size) >= 1
        /\ Undamaged
        /\ pools' = [pools EXCEPT ![k] = d.pool]
        /\ last' = [Called("Pool.deallocate", k, last.bytes, last.ptr, NULL, d.outcome)
                       EXCEPT !.misuse = "double_free"]
        /\ UNCHANGED <<config, built_from, head, tail, live>>

\* A caller returns the live allocation r to pool k, which owns it, with a
\* byte count that needs another number of blocks than the allocation has.
\* The release stays inside the bytes of used_blocks.
MismatchedDeallocate(k, r, bytes) ==
    LET p == pools[k]
        n == number_of_blocks(bytes, p.block_size)
        d == Pool_deallocate(p, r.pointer, bytes)
    IN  /\ BagIn(r, live)
        /\ find(p, r.pointer)
        /\ n # number_of_blocks(r.bytes, p.block_size)
        /\ ((r.pointer - p.mem_pointer) \div p.block_size) + n <= kByte * Len(p.used_blocks)
        /\ Undamaged
        /\ pools' = [pools EXCEPT ![k] = d.pool]
        /\ live' = live (-) SetToBag({r})
        /\ last' = [Called("Pool.deallocate", k, bytes, r.pointer, NULL, d.outcome)
                       EXCEPT !.misuse = "size_mismatch"]
        /\ UNCHANGED <<config, built_from, head, tail>>

\* The callers of Spec, and one repeated release. What the program does after
\* a release has damaged a pool is not followed.
NextDoubleFree ==
    \/ Undamaged /\ Next
    \/ \E k \in DOMAIN pools : DoubleFree(k)

SpecDoubleFree == Init /\ [][NextDoubleFree]_vars

\* The callers of Spec, and one release with a wrong byte count.
NextMismatch ==
    \/ Undamaged /\ Next
    \/ \E k \in DOMAIN pools, r \in BagToSet(live), bytes \in Sizes :
          MismatchedDeallocate(k, r, bytes)

SpecMismatch == Init /\ [][NextMismatch]_vars

\* ---------------------------------------------------------------- properties

\* The number of unset bits among the block_counter bits of the bitmap of p.
UnsetBits(p) == Cardinality({ i \in 0..(p.block_counter - 1) : ~in_use(p, i) })

\* The pool whose arena contains the pointer of the loan r.
Owner(r) == CHOOSE k \in DOMAIN pools : find(pools[k], r.pointer)

\* The block range [first_index, first_index + blocks_needed) of the loan r.
BlocksOf(r) ==
    LET p     == pools[Owner(r)]
        first == (r.pointer - p.mem_pointer) \div p.block_size
    IN  first..(first + number_of_blocks(r.bytes, p.block_size) - 1)

\* The lowest index i with blocks i..i+K-1 of p all free, over the whole
\* bitmap; block_counter when there is none.
FirstFit(p, K) ==
    LET starts == { i \in 0..(p.block_counter - K) :
                       \A j \in i..(i + K - 1) : ~in_use(p, j) }
    IN  IF starts = {} THEN p.block_counter
        ELSE CHOOSE i \in starts : \A j \in starts : i <= j

\* C1: in every state reached by allocate calls and releases of live
\* allocations with their own pointer and byte count, blocks_free_num of
\* every pool equals the number of unset bits of its bitmap.
C1_FreeCountIsUnsetBits ==
    \A k \in DOMAIN pools : pools[k].blocks_free_num = UnsetBits(pools[k])

\* A release has just acted on a pool that still holds other allocations.
C1_Witness ==
    /\ last.op \in {"Pool.deallocate", "MemPoolList.deallocate"}
    /\ last.outcome = "ok"
    /\ number_of_blocks(last.bytes, pools[last.pid].block_size) >= 2
    /\ pools[last.pid].blocks_free_num > 0
    /\ pools[last.pid].blocks_free_num < pools[last.pid].block_counter

\* C2: the block ranges of any two allocations that are live at the same
\* time in the same pool are disjoint (a loan held twice holds no block).
C2_LiveRangesDisjoint ==
    \A r1, r2 \in BagToSet(live) :
        /\ (r1 # r2 /\ Owner(r1) = Owner(r2)) => BlocksOf(r1) \cap BlocksOf(r2) = {}
        /\ CopiesIn(r1, live) > 1 => BlocksOf(r1) = {}

\* An allocate has just filled a gap below an older live allocation of the
\* same pool, after a release made the gap.
C2_Witness ==
    /\ last.op = "Pool.allocate"
    /\ last.outcome = "ok"
    /\ \E r1, r2 \in BagToSet(live) :
          /\ r1.pointer = last.ret /\ r1.bytes = last.bytes
          /\ Owner(r1) = last.pid /\ Owner(r2) = last.pid
          /\ Cardinality(BlocksOf(r1)) >= 2
          /\ BlocksOf(r2) # {}
          /\ r2.pointer > r1.pointer

\* C3: Pool::allocate for a request that needs K >= 1 blocks returns the
\* lowest index over the whole bitmap at which K consecutive blocks are free,
\* and the empty result exactly when there is no such run.
C3_FirstFit ==
    [][ (last'.op = "Pool.allocate"
           /\ number_of_blocks(last'.bytes, pools[last'.pid].block_size) >= 1)
        => LET p  == pools[last'.pid]
               K  == number_of_blocks(last'.bytes, p.block_size)
               ff == FirstFit(p, K)
           IN  IF ff < p.block_counter
               THEN last'.outcome = "ok" /\ last'.ret = p.mem_pointer + ff * p.block_size
               ELSE last'.outcome = "null" /\ last'.ret = NULL ]_vars

\* Pool::allocate has just taken blocks 0 and 1 of six blocks that were
\* [free, free, occupied, free, free, free].
C3_Witness ==
    /\ last.op = "Pool.allocate"
    /\ last.outcome = "ok"
    /\ pools[last.pid].block_counter = 6
    /\ number_of_blocks(last.bytes, pools[last.pid].block_size) = 2
    /\ last.ret = pools[last.pid].mem_pointer
    /\ last.before.free_block = 0
    /\ \A i \in 0..5 : in_use(pools[last.pid], i) <=> i \in {0, 1, 2}

\* C4: Pool::deallocate called with the pointer and the byte count of the
\* allocate that immediately precedes it restores blocks_free_num and the
\* bitmap of the pool to what they were before that allocate.
C4_RoundTrip ==
    (last.op \in {"Pool.deallocate", "MemPoolList.deallocate"} /\ last.roundtrip)
    => /\ last.outcome = "ok"
       /\ pools[last.pid].used_blocks = last.before.used_blocks
       /\ pools[last.pid].blocks_free_num = last.before.blocks_free_num

\* Three blocks were allocated from a pool holding other allocations and
\* released at once by Pool::deallocate.
C4_Witness ==
    /\ last.op = "Pool.deallocate"
    /\ last.roundtrip
    /\ number_of_blocks(last.bytes, pools[last.pid].block_size) = 3
    /\ last.before.blocks_free_num < pools[last.pid].block_counter
    /\ last.ptr # pools[last.pid].mem_pointer

\* C5: the resume hint free_block never exceeds the lowest free block
\* index: every block below the hint is occupied.
C5_HintIsFloor ==
    \A k \in DOMAIN pools :
        /\ pools[k].free_block <= pools[k].block_counter
        /\ \A i \in 0..(pools[k].free_block - 1) : in_use(pools[k], i)

\* The hint has advanced, was left behind by an allocation above it, and now
\* points at an occupied block below the lowest free one.
C5_Witness ==
    \E k \in DOMAIN pools :
        /\ pools[k].free_block > 0
        /\ pools[k].free_block < pools[k].block_counter
        /\ in_use(pools[k], pools[k].free_block)
        /\ \E i \in 0..(pools[k].block_counter - 1) : ~in_use(pools[k], i)

\* ceil(bytes / block_size), the number of blocks a request needs.
CeilDiv(bytes, block_size) == (bytes + block_size - 1) \div block_size

\* Pool p is not full and has a run of ceil(bytes / block_size) consecutive
\* free blocks.
HasRunFor(p, bytes) ==
    /\ UnsetBits(p) > 0
    /\ FirstFit(p, CeilDiv(bytes, p.block_size)) < p.block_counter

RECURSIVE ChainFrom(_, _)
\* The pools met by following next_pool from pool on, in that order.
ChainFrom(ps, pool) ==
    IF pool = NULL THEN << >> ELSE <<pool>> \o ChainFrom(ps, ps[pool].next_pool)

\* The first pool in chain order that has a run for the request; NULL when
\* no pool has one.
FirstWithRun(bytes) ==
    LET order == ChainFrom(pools, head)
        good  == { i \in DOMAIN order : HasRunFor(pools[order[i]], bytes) }
    IN  IF good = {} THEN NULL
        ELSE order[CHOOSE i \in good : \A j \in good : i <= j]

\* C6: MemPoolList::allocate(bytes) returns a pointer into the arena of the
\* first pool in chain order that has a run of ceil(bytes / block_size)
\* consecutive free blocks; pools before it are skipped.
C6_FirstPoolWithRun ==
    [][ (last'.op = "MemPoolList.allocate" /\ FirstWithRun(last'.bytes) # NULL)
        => /\ last'.outcome = "ok"
           /\ last'.pid = FirstWithRun(last'.bytes)
           /\ find(pools[FirstWithRun(last'.bytes)], last'.ret) ]_vars

\* The statement of C6 for requests of at least one byte.
C6_FromOneByte ==
    [][ (last'.op = "MemPoolList.allocate" /\ last'.bytes >= 1
           /\ FirstWithRun(last'.bytes) # NULL)
        => /\ last'.outcome = "ok"
           /\ last'.pid = FirstWithRun(last'.bytes)
           /\ find(pools[FirstWithRun(last'.bytes)], last'.ret) ]_vars

\* C7: a fully occupied pool returns the empty result from Pool::allocate
\* for every request; MemPoolList::allocate fails with bad_alloc exactly
\* when no pool of the chain can satisfy the request, and never returns a
\* null pointer as a success.
C7_Exhaustion ==
    [][ /\ (last'.op = "Pool.allocate" /\ UnsetBits(pools[last'.pid]) = 0)
           => (last'.outcome = "null" /\ last'.ret = NULL)
        /\ last'.op = "MemPoolList.allocate"
           => /\ last'.outcome = "bad_alloc" <=> FirstWithRun(last'.bytes) = NULL
              /\ last'.outcome = "ok" => last'.ret # NULL ]_vars

\* The first sentence of C7 alone: a fully occupied pool returns the empty
\* result from Pool::allocate for every request.
C7_FullPoolGivesNothing ==
    [][ (last'.op = "Pool.allocate" /\ UnsetBits(pools[last'.pid]) = 0)
        => (last'.outcome = "null" /\ last'.ret = NULL) ]_vars

\* The statement of C7 for requests of at least one byte.
C7_FromOneByte ==
    [][ last'.bytes >= 1
        => /\ (last'.op = "Pool.allocate" /\ UnsetBits(pools[last'.pid]) = 0)
              => (last'.outcome = "null" /\ last'.ret = NULL)
           /\ last'.op = "MemPoolList.allocate"
              => /\ last'.outcome = "bad_alloc" <=> FirstWithRun(last'.bytes) = NULL
                 /\ last'.outcome = "ok" => last'.ret # NULL ]_vars

\* C8: the second of two deallocate calls for the same allocation fails
\* loudly and changes neither the bitmap nor blocks_free_num, so that
\* blocks_free_num never exceeds the number of unset bits.
C8_DoubleFreeRejected ==
    [][ last'.misuse = "double_free"
        => /\ last'.outcome = "abort"
           /\ pools' = pools
           /\ \A k \in DOMAIN pools : pools'[k].blocks_free_num <= UnsetBits(pools'[k]) ]_vars

\* C9: a deallocate call whose byte count needs another number of blocks
\* than the allocation has fails loudly and changes nothing: no block of
\* another live allocation is cleared and a range that runs past
\* block_counter is not applied.
C9_MismatchRejected ==
    [][ last'.misuse = "size_mismatch"
        => /\ last'.outcome = "abort"
           /\ pools' = pools
           /\ \A r \in BagToSet(live') :
                 \A i \in BlocksOf(r)' : in_use(pools'[Owner(r)'], i) ]_vars

\* A release with too large a byte count has cleared the block of another
\* live allocation.
C9_NeighbourCleared ==
    /\ last.misuse = "size_mismatch"
    /\ last.outcome = "ok"
    /\ \E r \in BagToSet(live) : \E i \in BlocksOf(r) : ~in_use(pools[Owner(r)], i)

\* A release has been applied to a block index at or past block_counter.
C9_PastTheEnd ==
    /\ last.misuse = "size_mismatch"
    /\ last.outcome = "ok"
    /\ ((last.ptr - pools[last.pid].mem_pointer) \div pools[last.pid].block_size)
         + number_of_blocks(last.bytes, pools[last.pid].block_size)
       > pools[last.pid].block_counter
    /\ pools[last.pid].blocks_free_num > pools[last.pid].block_counter

\* C10: Pool::deallocate called with a null pointer fails with an error in
\* every pool state and leaves the bitmap, blocks_free_num and the hint of
\* the pool as they were.
C10_NullReleaseFails ==
    [][ (last'.op = "Pool.deallocate" /\ last'.ptr = NULL)
        => (last'.outcome = "bad_alloc" /\ pools' = pools) ]_vars

\* Pool::deallocate(nullptr, n) has just thrown on a pool that holds
\* allocations and whose hint has moved.
C10_Witness ==
    /\ last.op = "Pool.deallocate"
    /\ last.ptr = NULL
    /\ last.outcome = "bad_alloc"
    /\ pools[last.pid].blocks_free_num < pools[last.pid].block_counter
    /\ pools[last.pid].free_block > 0

\* C11: MemPoolList::deallocate called with a null pointer (and so
\* Allocator_::deallocate, which forwards to it) fails with an error; it does
\* not return normally.
C11_ChainNullReleaseFails ==
    [][ (last'.op = "MemPoolList.deallocate" /\ last'.ptr = NULL)
        => last'.outcome \in {"bad_alloc", "abort"} ]_vars

\* MemPoolList::deallocate(nullptr, n) has returned normally: no pool's find
\* accepted the null pointer and no pool was asked to release it.
C11_SilentReturn ==
    /\ last.op = "MemPoolList.deallocate"
    /\ last.ptr = NULL
    /\ last.outcome = "noop"
    /\ last.pid = NULL

\* The addresses of the arena of p: [mem_pointer, mem_pointer + block_size * block_counter).
ArenaRange(p) == p.mem_pointer..(p.mem_pointer + p.block_size * p.block_counter - 1)

\* The first pool in chain order whose arena range contains the pointer; NULL
\* when no arena contains it.
FirstOwner(pointer) ==
    LET order == ChainFrom(pools, head)
        own   == { i \in DOMAIN order : pointer \in ArenaRange(pools[order[i]]) }
    IN  IF own = {} THEN NULL
        ELSE order[CHOOSE i \in own : \A j \in own : i <= j]

\* C12: MemPoolList::deallocate(pointer, bytes) releases blocks in the first
\* pool in chain order whose arena range contains the pointer and leaves every
\* other pool as it was; when no arena contains the pointer the call returns
\* normally and every pool is as it was.
C12_ReleaseInOwnerOnly ==
    [][ last'.op = "MemPoolList.deallocate"
        => LET o == FirstOwner(last'.ptr)
           IN  IF o = NULL
               THEN last'.outcome = "noop" /\ pools' = pools
               ELSE /\ last'.outcome = "ok"
                    /\ last'.pid = o
                    /\ LET first == (last'.ptr - pools[o].mem_pointer) \div pools[o].block_size
                           n     == number_of_blocks(last'.bytes, pools[o].block_size)
                       IN  /\ \A i \in first..(first + n - 1) : ~in_use(pools'[o], i)
                           /\ pools'[o].blocks_free_num = pools[o].blocks_free_num + n
                    /\ \A k \in DOMAIN pools : k # o => pools'[k] = pools[k] ]_vars

\* MemPoolList::deallocate has just released blocks in a pool that is not the
\* head of the chain, while the head holds allocations of its own.
C12_Witness ==
    /\ last.op = "MemPoolList.deallocate"
    /\ last.outcome = "ok"
    /\ last.pid # head
    /\ number_of_blocks(last.bytes, pools[last.pid].block_size) >= 1
    /\ pools[last.pid].blocks_free_num < pools[last.pid].block_counter
    /\ pools[head].blocks_free_num < pools[head].block_counter

\* MemPoolList::deallocate has just been given the address one past the end
\* of an arena whose pool holds allocations, and returned without a release.
C12_PastTheArena ==
    /\ last.op = "MemPoolList.deallocate"
    /\ last.outcome = "noop"
    /\ \E k \in DOMAIN pools :
          /\ last.ptr = pools[k].mem_pointer + pools[k].block_size * pools[k].block_counter
          /\ pools[k].blocks_free_num < pools[k].block_counter

\* C13: a successful allocate whose run starts at the hint free_block sets
\* the hint to first index + number of blocks; a successful allocate whose
\* run starts above the hint leaves it; a deallocate of block index j sets
\* the hint to min(hint, j); nothing else changes the hint of any pool that
\* exists after the step.
C13_HintTransitions ==
    [][ \A k \in DOMAIN pools' :
          LET p == pools[k]
          IN  IF last'.pid = k /\ last'.outcome = "ok"
                 /\ last'.op \in {"Pool.allocate", "MemPoolList.allocate"}
              THEN LET first == (last'.ret - p.mem_pointer) \div p.block_size
                       n     == number_of_blocks(last'.bytes, p.block_size)
                   IN  /\ first >= p.free_block
                       /\ first = p.free_block => pools'[k].free_block = first + n
                       /\ first > p.free_block => pools'[k].free_block = p.free_block
              ELSE IF last'.pid = k /\ last'.outcome = "ok"
                      /\ last'.op \in {"Pool.deallocate", "MemPoolList.deallocate"}
              THEN LET j == (last'.ptr - p.mem_pointer) \div p.block_size
                   IN  pools'[k].free_block = IF j < p.free_block THEN j ELSE p.free_block
              ELSE pools'[k].free_block = p.free_block ]_vars

\* Pool::allocate has just taken a run of at least two blocks that starts
\* above the hint, the block at the hint being free but too short a run.
C13_Witness ==
    /\ last.op = "Pool.allocate"
    /\ last.outcome = "ok"
    /\ number_of_blocks(last.bytes, pools[last.pid].block_size) >= 2
    /\ (last.ret - pools[last.pid].mem_pointer) \div pools[last.pid].block_size
          > last.before.free_block
    /\ ~in_use(pools[last.pid], last.before.free_block)
    /\ pools[last.pid].free_block = last.before.free_block

\* Pool::deallocate has just released a block above the hint, which stayed.
C13_ReleaseAboveHint ==
    /\ last.op = "Pool.deallocate"
    /\ last.outcome = "ok"
    /\ (last.ptr - pools[last.pid].mem_pointer) \div pools[last.pid].block_size
          > pools[last.pid].free_block
    /\ pools[last.pid].free_block > 0

\* Pool::allocate or Pool::deallocate has, in this step, worked on exactly K
\* blocks of the pool it was called on: the count it computes is K, a
\* successful allocate marks K blocks from the returned one and lowers
\* blocks_free_num by K, and a release raises blocks_free_num by K.
WorksOnBlocks(K) ==
    LET p == pools[last'.pid]
    IN  /\ number_of_blocks(last'.bytes, p.block_size) = K
        /\ (last'.op = "Pool.allocate" /\ last'.outcome = "ok")
           => LET first == (last'.ret - p.mem_pointer) \div p.block_size
              IN  /\ \A i \in first..(first + K - 1) : in_use(pools'[last'.pid], i)
                  /\ pools'[last'.pid].blocks_free_num = p.blocks_free_num - K
        /\ (last'.op = "Pool.allocate" /\ K = 0) => last'.outcome = "ok"
        /\ last'.op = "Pool.deallocate"
           => pools'[last'.pid].blocks_free_num = p.blocks_free_num + K

\* C14: for every byte count, 0 included, and every block size, Pool::allocate
\* and Pool::deallocate work on exactly ceil(bytes / block_size) blocks, the
\* value of 1 + (bytes - 1) / block_size in size_t arithmetic.
C14_BlocksNeeded ==
    [][ (last'.op = "Pool.allocate" \/ (last'.op = "Pool.deallocate" /\ last'.ptr # NULL))
        => WorksOnBlocks(CeilDiv(last'.bytes, pools[last'.pid].block_size)) ]_vars

\* The statement of C14 for byte counts of at least one.
C14_FromOneByte ==
    [][ (last'.bytes >= 1
           /\ (last'.op = "Pool.allocate" \/ (last'.op = "Pool.deallocate" /\ last'.ptr # NULL)))
        => WorksOnBlocks(CeilDiv(last'.bytes, pools[last'.pid].block_size)) ]_vars

\* Pool::allocate(0) has just returned the empty result on a pool of blocks
\* larger than one byte that has every block free.
C14_ZeroBytesWrap ==
    /\ last.op = "Pool.allocate"
    /\ last.bytes = 0
    /\ pools[last.pid].block_size >= 2
    /\ last.outcome = "null"
    /\ pools[last.pid].blocks_free_num = pools[last.pid].block_counter
    /\ number_of_blocks(0, pools[last.pid].block_size) > pools[last.pid].block_counter

\* The example: 33 bytes from an empty pool of 8 blocks of 16 bytes take
\* blocks 0-2 and leave blocks_free_num at 5.
C14_Example33 ==
    /\ last.op = "Pool.allocate"
    /\ last.bytes = 33
    /\ last.outcome = "ok"
    /\ pools[last.pid].block_size = 16
    /\ pools[last.pid].block_counter = 8
    /\ last.ret = pools[last.pid].mem_pointer
    /\ \A i \in 0..7 : in_use(pools[last.pid], i) <=> i \in {0, 1, 2}
    /\ pools[last.pid].blocks_free_num = 5

\* C15: for a configuration list of length 1, 2, 3 or more the constructor
\* builds one pool per list entry, and following next_pool from head meets
\* the pools in the order of the list and ends at tail, whose next_pool is
\* null; MemPoolList::allocate probes the pools in that order.
C15_ChainInListOrder ==
    head # NULL
    => LET order == ChainFrom(pools, head)
       IN  /\ Len(pools) = Len(built_from)
           /\ Len(order) = Len(built_from)
           /\ \A i \in DOMAIN order :
                 /\ pools[order[i]].block_size = built_from[i][1]
                 /\ pools[order[i]].block_counter = built_from[i][2]
           /\ \A i, j \in DOMAIN order : i # j => order[i] # order[j]
           /\ order[Len(order)] = tail
           /\ pools[tail].next_pool = NULL
           /\ \A i \in 2..Len(order) : pools[order[i]].prev_pool = order[i - 1]

\* In a chain of four pools, MemPoolList::allocate has just been served by
\* the tail, the fourth list entry, every pool before it being full.
C15_Witness ==
    /\ Len(built_from) = 4
    /\ ChainFrom(pools, head) = <<1, 3, 4, 2>>
    /\ last.op = "MemPoolList.allocate"
    /\ last.outcome = "ok"
    /\ last.pid = tail
    /\ \A k \in DOMAIN pools : pools[k].blocks_free_num = 0

\* C16: a failed allocation changes nothing. When Pool::allocate returns the
\* empty result the bitmap, blocks_free_num and the hint of the pool are as
\* before; when MemPoolList::allocate throws bad_alloc every pool is as
\* before; and the pools MemPoolList::allocate tried in vain before the one
\* that served the request are as before.
C16_FailedAllocateChangesNothing ==
    [][ /\ (last'.op = "Pool.allocate" /\ last'.outcome = "null")
           => (pools' = pools /\ live' = live)
        /\ (last'.op = "MemPoolList.allocate" /\ last'.outcome = "bad_alloc")
           => (pools' = pools /\ live' = live)
        /\ (last'.op = "MemPoolList.allocate" /\ last'.outcome = "ok")
           => \A k \in DOMAIN pools : k # last'.pid => pools'[k] = pools[k] ]_vars

\* MemPoolList::allocate has just thrown bad_alloc although a pool passed the
\* test of line 202: that pool holds allocations, its hint has moved, and it
\* was searched without finding a run.
C16_Witness ==
    /\ last.op = "MemPoolList.allocate"
    /\ last.outcome = "bad_alloc"
    /\ last.bytes >= 1
    /\ \E k \in DOMAIN pools :
          /\ fits(pools[k], last.bytes)
          /\ pools[k].blocks_free_num < pools[k].block_counter
          /\ pools[k].free_block > 0

\* Pool::allocate has just returned the empty result on a pool that has
\* enough free blocks, but no run of them.
C16_Fragmented ==
    /\ last.op = "Pool.allocate"
    /\ last.outcome = "null"
    /\ last.bytes >= 1
    /\ pools[last.pid].blocks_free_num
          >= number_of_blocks(last.bytes, pools[last.pid].block_size)

\* The search of Pool::allocate(bytes) on pool p reads no bit at an index of
\* block_counter or more.
ReadsInside(p, bytes) ==
    \A i \in SearchReads(p, number_of_blocks(bytes, p.block_size), p.free_block) :
        0 <= i /\ i < p.block_counter

\* The pointer ret handed out by pool p for bytes is block-aligned and its
\* whole run lies inside the arena.
RunInside(p, ret, bytes) ==
    LET off == ret - p.mem_pointer
        n   == number_of_blocks(bytes, p.block_size)
    IN  /\ off >= 0
        /\ off % p.block_size = 0
        /\ (off \div p.block_size) + n <= p.block_counter
        /\ ret + n * p.block_size <= p.mem_pointer + p.block_size * p.block_counter

\* C17: every successful allocate returns a block-aligned offset whose run
\* first index .. first index + number of blocks lies inside the arena, the
\* search reads no bitmap bit at an index of block_counter or more, and
\* blocks_free_num stays between 0 and block_counter in every state reached
\* by allocate calls and matching releases.
C17_RunInsideArena ==
    [][ /\ last'.op = "Pool.allocate"
           => /\ ReadsInside(pools[last'.pid], last'.bytes)
              /\ last'.outcome = "ok"
                 => RunInside(pools[last'.pid], last'.ret, last'.bytes)
        /\ last'.op = "MemPoolList.allocate"
           => /\ \A k \in DOMAIN pools :
                    fits(pools[k], last'.bytes) => ReadsInside(pools[k], last'.bytes)
              /\ last'.outcome = "ok"
                 => RunInside(pools[last'.pid], last'.ret, last'.bytes)
        /\ \A k \in DOMAIN pools :
              /\ 0 <= pools[k].blocks_free_num
              /\ pools[k].blocks_free_num <= pools[k].block_counter
        /\ \A k \in DOMAIN pools' :
              /\ 0 <= pools'[k].blocks_free_num
              /\ pools'[k].blocks_free_num <= pools'[k].block_counter ]_vars

\* Pool::allocate has just handed out a run of at least two blocks that ends
\* at the last block of the arena, found above the hint after the search
\* passed occupied blocks.
C17_Witness ==
    /\ last.op = "Pool.allocate"
    /\ last.outcome = "ok"
    /\ number_of_blocks(last.bytes, pools[last.pid].block_size) >= 2
    /\ (last.ret - pools[last.pid].mem_pointer) \div pools[last.pid].block_size
          + number_of_blocks(last.bytes, pools[last.pid].block_size)
       = pools[last.pid].block_counter
    /\ (last.ret - pools[last.pid].mem_pointer) \div pools[last.pid].block_size
          > last.before.free_block
    /\ pools[last.pid].block_counter - 1
          \in SearchReads(last.before, number_of_blocks(last.bytes, last.before.block_size),
                          last.before.free_block)

\* Pool::allocate has just failed after a search that read the bit of the
\* last block and stopped there.
C17_SearchToTheEnd ==
    /\ last.op = "Pool.allocate"
    /\ last.outcome = "null"
    /\ last.bytes >= 1
    /\ pools[last.pid].block_counter - 1
          \in SearchReads(pools[last.pid],
                          number_of_blocks(last.bytes, pools[last.pid].block_size),
                          pools[last.pid].free_block)

====
